---------------------------- MODULE Spec2Model ----------------------------
(***************************************************************************)
(* The two example notebooks of the repository, examples/notebooks/pyplot/ *)
(* histo_1D.ipynb and examples/notebooks/basic/pca.ipynb, as two kernels   *)
(* that each run the code cells of one notebook top to bottom ("Run All"). *)
(* A kernel is a Python process of its own: it has its own numpy global    *)
(* RandomState, its own library settings and its own namespace.            *)
(*                                                                         *)
(* pc[k] indexes the next statement of notebook k; a statement is named by *)
(* the line of the .ipynb file it starts on.  The calls into the plotting  *)
(* library (histogram, unpack, Plotter, pcaEllipsoid, insidePoints, ...)   *)
(* are not part of the two files; their effect is modelled from the        *)
(* interface description of the specification (section 6).                 *)
(***************************************************************************)
EXTENDS Integers, Sequences, FiniteSets, TLC

VARIABLES
    pc,        \* pc[k]: index in Stmts(k) of the next statement of kernel k
    raised,    \* raised[k]: a statement of k raised; the error left the cell
    runs,      \* runs[k]: number of the current run of k (fresh kernel each)
    rng,       \* rng[k]: state of the kernel's numpy global RandomState
    entropy,   \* entropy[k]: OS entropy that seeded rng[k] at import
    backend,   \* backend[k]: the library's notebook backend setting
    log,       \* log[k]: lines of the statements executed in this run
    out,       \* out[k]: outputs of the cells of k (printc reports, scenes)
    lastRun,   \* lastRun[k]: input data of the previous run of k, <<>> if none
    data1, data2, hst1, hst2,              \* namespace of histo_1D.ipynb
    plt, pts, elli, ipts, opts, pltTrace   \* namespace of pca.ipynb

kvars == <<pc, raised, runs, rng, entropy, backend, log, out, lastRun>>
hvars == <<data1, data2, hst1, hst2>>
pvars == <<plt, pts, elli, ipts, opts, pltTrace>>
vars == <<kvars, hvars, pvars>>

---------------------------------------------------------------------------
(* Bounds of the model *)

\* length of data1 and data2 (250 in histo_1D.ipynb, lines 15-16)
NData == 2
\* number of points of the cloud (500 in pca.ipynb, line 19)
NPts == 3
\* number of distinct OS entropy values a fresh RandomState can start from
NEntropy == 2
\* modulus of the generator standing for numpy's Mersenne twister
RngMod == 8
\* resolution of a uniform draw in [0, 1): it is u / UnifRes, u in 0..UnifRes-1
UnifRes == 4
\* largest squared size the opaque ellipsoid fit may return
MaxR2 == 1
\* runs of a notebook from a fresh kernel
MaxRuns == 2

(* Constants of the notebooks *)

\* histo_1D.ipynb line 19: bins=30
Bins == 30
\* histo_1D.ipynb line 28: unpack(15)
HighlightBin == 15
\* histo_1D.ipynb line 14: np.random.seed(3)
SeedValue == 3
\* pca.ipynb line 19: randn(500, 3), three coordinates per point
Dim == 3

Notebooks == {"histo_1D", "pca"}

\* An unbound name of a namespace.
NoObj == [kind |-> "unbound"]

---------------------------------------------------------------------------
(* The statements of the code cells, by line of the .ipynb file *)

HistoStmts == <<9, 12, 14, 15, 16, 18, 28, 29, 33, 36>>

\* variant: plt.close() placed before plt.show()
PcaStmtsCloseBeforeShow == <<14, 17, 19, 21, 22, 24, 25, 26, 27, 29, 30, 31, 41, 32>>

PcaStmts == <<14, 17, 19, 21, 22, 24, 25, 26, 27, 29, 30, 31, 32, 41>>

Stmts(k) == IF k = "histo_1D" THEN HistoStmts ELSE PcaStmts

Done(k) == pc[k] = Len(Stmts(k)) + 1

\* variant: the cell goes on after an error, as under a bare try/except
CanStepDespiteError(k) == pc[k] <= Len(Stmts(k))

\* A cell has no try/except: once a statement raised, nothing else runs.
CanStep(k) == ~raised[k] /\ pc[k] <= Len(Stmts(k))

At(k, line) == CanStep(k) /\ Stmts(k)[pc[k]] = line

\* variant: a statement is jumped over
NextPcSkip(k) == pc[k] + 2

\* Straight-line code: the statement after this one is the next in the cell.
NextPc(k) == pc[k] + 1

\* Statement `line` of k has run and returned.
Return(k, line) ==
    /\ pc' = [pc EXCEPT ![k] = NextPc(k)]
    /\ log' = [log EXCEPT ![k] = Append(@, line)]

---------------------------------------------------------------------------
(* numpy's global RandomState *)

Advance(s) == (5 * s + 3) % RngMod

RECURSIVE AdvanceBy(_, _)
AdvanceBy(s, n) == IF n = 0 THEN s ELSE AdvanceBy(Advance(s), n - 1)

\* np.random.seed(n)
SeedState(n) == n % RngMod

\* one standard-normal draw, on a three-valued grid
Gauss(s) == (s % 3) - 1

\* one uniform draw in [0, 1), as a numerator over UnifRes
Unif(s) == s % UnifRes

\* the n states the generator goes through from state s
RECURSIVE Stream(_, _)
Stream(s, n) == IF n = 0 THEN <<>> ELSE <<Advance(s)>> \o Stream(Advance(s), n - 1)

\* np.random.randn(n) from state s
Randn(s, n) == LET st == Stream(s, n) IN [i \in 1..n |-> Gauss(st[i])]

\* (np.random.rand(n) - 0.5) * 12 from state s
RandCentred12(s, n) ==
    LET st == Stream(s, n) IN [i \in 1..n |-> ((Unif(st[i]) * 12) \div UnifRes) - 6]

\* np.random.randn(n, Dim) from state s: n rows of Dim draws
Randn2D(s, n) ==
    LET st == Stream(s, n * Dim)
    IN  [i \in 1..n |-> [j \in 1..Dim |-> Gauss(st[(i - 1) * Dim + j])]]

---------------------------------------------------------------------------
(* The plotting library, as the notebooks use it (specification, section   *)
(* 6: external interfaces).  The library's own code is not in the two      *)
(* notebook files.                                                         *)

Range(f) == {f[i] : i \in DOMAIN f}

SeqMin(f) == CHOOSE m \in Range(f) : \A x \in Range(f) : m <= x

SeqMax(f) == CHOOSE m \in Range(f) : \A x \in Range(f) : x <= m

\* one displayable part of a histogram
Part(type, c, alpha) == [type |-> type, c |-> c, alpha |-> alpha]

\* histogram(data, bins=, errors=True, title=, c=, marker=): the bins first,
\* then the error bars, the markers, the title and the axes
Histogram(data, bins, c) ==
    [kind   |-> "histogram",
     bins   |-> bins,
     xlim   |-> <<SeqMin(data), SeqMax(data)>>,
     parts  |-> [i \in 1..bins |-> Part("bin", c, "1")]
                \o <<Part("errors", c, "1"), Part("marker", c, "1"),
                     Part("title", "default", "1"), Part("axes", "default", "1")>>]

\* histogram(data, format=h, alpha=): axis and bin layout taken from h
HistogramLike(data, h, alpha) ==
    [kind   |-> "histogram",
     bins   |-> h.bins,
     xlim   |-> h.xlim,
     parts  |-> [i \in 1..h.bins |-> Part("bin", "default", alpha)]]

\* h.unpack(i).c(col): the i-th part (zero-based) of h gets colour col
UnpackC(h, i, col) == [h EXCEPT !.parts[i + 1].c = col]

\* Text3D(txt, pos=, c=)
Text3D(c) == Part("text3d", c, "1")

\* h += obj: the addition-like combination keeps h and adds obj to it
IAdd(h, obj) == [h EXCEPT !.parts = Append(@, obj)]

\* show(objs, zoom=) and Plotter.show(): one scene on the kernel's backend
Scene(objs, bk) == [kind |-> "scene", objects |-> objs, backend |-> bk]

\* Plotter()
NewPlotter == [kind |-> "plotter", actors |-> <<>>, shown |-> FALSE, closed |-> FALSE]

\* plt += obj
PlotterAdd(p, obj) == [p EXCEPT !.actors = Append(@, obj)]

\* the centre of a cloud: the mean of each coordinate
Centre(cloud) ==
    LET RECURSIVE Sum(_, _)
        Sum(j, n) == IF n = 0 THEN 0 ELSE cloud[n][j] + Sum(j, n - 1)
    IN  [j \in 1..Dim |-> Sum(j, Len(cloud)) \div Len(cloud)]

\* pcaEllipsoid(cloud, pvalue=): a region around the cloud's centre; its size
\* r2 is the fit's, which the specification leaves opaque
Ellipsoid(cloud, pvalue, r2) ==
    [kind |-> "ellipsoid", centre |-> Centre(cloud), r2 |-> r2, pvalue |-> pvalue]

SqDist(p, q) ==
    LET RECURSIVE Sum(_)
        Sum(j) == IF j = 0 THEN 0 ELSE (p[j] - q[j]) * (p[j] - q[j]) + Sum(j - 1)
    IN  Sum(Dim)

\* the containment test of an ellipsoid
IsInside(e, p) == SqDist(p, e.centre) <= e.r2

\* e.insidePoints(cloud, invert=): the points inside (outside, when inverted)
InsidePoints(e, cloud, invert) ==
    SelectSeq(cloud, LAMBDA p : IsInside(e, p) # invert)

\* Points(cloud, c=)
Points(cloud, c) == [kind |-> "points", pts |-> cloud, c |-> c]

\* obj.N()
N(cloud) == Len(cloud)

\* e.asphericity(): 0 for the sphere-like region of this model
Asphericity(e) == 0

\* printc(text, value, c=)
Report(text, value, c) == [kind |-> "print", text |-> text, value |-> value, c |-> c]

---------------------------------------------------------------------------
(* Kernels *)

H == "histo_1D"

P == "pca"

\* a fresh kernel: nothing imported, nothing run
Init ==
    /\ pc = [k \in Notebooks |-> 1]
    /\ raised = [k \in Notebooks |-> FALSE]
    /\ runs = [k \in Notebooks |-> 1]
    /\ rng = [k \in Notebooks |-> -1]
    /\ entropy = [k \in Notebooks |-> -1]
    /\ backend = [k \in Notebooks |-> "unset"]
    /\ log = [k \in Notebooks |-> <<>>]
    /\ out = [k \in Notebooks |-> <<>>]
    /\ lastRun = [k \in Notebooks |-> <<>>]
    /\ data1 = <<>> /\ data2 = <<>> /\ hst1 = NoObj /\ hst2 = NoObj
    /\ plt = NoObj /\ pts = <<>> /\ elli = NoObj /\ ipts = <<>> /\ opts = <<>>
    /\ pltTrace = <<>>

\* "import numpy as np" and "from vedo import *" in kernel k: numpy seeds its
\* global RandomState from OS entropy, the library loads its default settings
Import(k, line) ==
    /\ At(k, line)
    /\ \E e \in 0..(NEntropy - 1) :
          /\ rng' = [rng EXCEPT ![k] = e]
          /\ entropy' = [entropy EXCEPT ![k] = e]
    /\ backend' = [backend EXCEPT ![k] = "default"]
    /\ Return(k, line)
    /\ UNCHANGED <<raised, runs, out, lastRun, hvars, pvars>>

\* the statement kernel k is at raises: the error propagates out of the cell
Raise(k) ==
    /\ CanStep(k)
    /\ raised' = [raised EXCEPT ![k] = TRUE]
    /\ UNCHANGED <<pc, runs, rng, entropy, backend, log, out, lastRun, hvars, pvars>>

\* the input data the run of k drew, <<>> while not all drawn
InputData(k) ==
    IF k = H THEN (IF data2 # <<>> THEN <<data1, data2>> ELSE <<>>) ELSE pts

\* the notebook is run again, from a fresh kernel
Restart(k) ==
    /\ Done(k) \/ raised[k]
    /\ runs[k] < MaxRuns
    /\ runs' = [runs EXCEPT ![k] = @ + 1]
    /\ lastRun' = [lastRun EXCEPT ![k] = InputData(k)]
    /\ pc' = [pc EXCEPT ![k] = 1]
    /\ raised' = [raised EXCEPT ![k] = FALSE]
    /\ rng' = [rng EXCEPT ![k] = -1]
    /\ entropy' = [entropy EXCEPT ![k] = -1]
    /\ backend' = [backend EXCEPT ![k] = "unset"]
    /\ log' = [log EXCEPT ![k] = <<>>]
    /\ out' = [out EXCEPT ![k] = <<>>]
    /\ IF k = H
         THEN /\ data1' = <<>> /\ data2' = <<>> /\ hst1' = NoObj /\ hst2' = NoObj
              /\ UNCHANGED pvars
         ELSE /\ plt' = NoObj /\ pts' = <<>> /\ elli' = NoObj /\ ipts' = <<>>
              /\ opts' = <<>> /\ pltTrace' = <<>>
              /\ UNCHANGED hvars

---------------------------------------------------------------------------
(* histo_1D.ipynb, cell 0 *)

\* lines 9-11: the imports
HistoImport == Import(H, 9)

\* line 12: embedWindow('2d')
HistoEmbedWindow ==
    /\ At(H, 12)
    /\ backend' = [backend EXCEPT ![H] = "2d"]
    /\ Return(H, 12)
    /\ UNCHANGED <<raised, runs, rng, entropy, out, lastRun, hvars, pvars>>

\* variant: the seed lands in a generator shared by all kernels
HistoSeedAllKernels ==
    /\ At(H, 14)
    /\ rng' = [k \in Notebooks |-> SeedState(SeedValue)]
    /\ Return(H, 14)
    /\ UNCHANGED <<raised, runs, entropy, backend, out, lastRun, hvars, pvars>>

\* variant: np.random.seed() without the 3, which reseeds from OS entropy
HistoSeedFromEntropy ==
    /\ At(H, 14)
    /\ \E e \in 0..(NEntropy - 1) : rng' = [rng EXCEPT ![H] = e]
    /\ Return(H, 14)
    /\ UNCHANGED <<raised, runs, entropy, backend, out, lastRun, hvars, pvars>>

\* line 14: np.random.seed(3)
HistoSeed ==
    /\ At(H, 14)
    /\ rng' = [rng EXCEPT ![H] = SeedState(SeedValue)]
    /\ Return(H, 14)
    /\ UNCHANGED <<raised, runs, entropy, backend, out, lastRun, hvars, pvars>>

\* line 15: data1 = np.random.randn(250)
HistoData1 ==
    /\ At(H, 15)
    /\ data1' = Randn(rng[H], NData)
    /\ rng' = [rng EXCEPT ![H] = AdvanceBy(@, NData)]
    /\ Return(H, 15)
    /\ UNCHANGED <<raised, runs, entropy, backend, out, lastRun, data2, hst1, hst2, pvars>>

\* line 16: data2 = (np.random.rand(250)-0.5)*12
HistoData2 ==
    /\ At(H, 16)
    /\ data2' = RandCentred12(rng[H], NData)
    /\ rng' = [rng EXCEPT ![H] = AdvanceBy(@, NData)]
    /\ Return(H, 16)
    /\ UNCHANGED <<raised, runs, entropy, backend, out, lastRun, data1, hst1, hst2, pvars>>

\* lines 18-25: hst1 = histogram(data1, bins=30, ..., c='red', marker='o')
HistoHst1 ==
    /\ At(H, 18)
    /\ hst1' = Histogram(data1, Bins, "red")
    /\ Return(H, 18)
    /\ UNCHANGED <<raised, runs, rng, entropy, backend, out, lastRun, data1, data2, hst2, pvars>>

\* variant: hst1.c('violet'), without the unpack: every part is recoloured
HistoColourAll ==
    /\ At(H, 28)
    /\ hst1' = [hst1 EXCEPT !.parts = [i \in DOMAIN @ |-> [@[i] EXCEPT !.c = "violet"]]]
    /\ Return(H, 28)
    /\ UNCHANGED <<raised, runs, rng, entropy, backend, out, lastRun, data1, data2, hst2, pvars>>

\* line 28: hst1.unpack(15).c('violet')
HistoUnpackC ==
    /\ At(H, 28)
    /\ hst1' = UnpackC(hst1, HighlightBin, "violet")
    /\ Return(H, 28)
    /\ UNCHANGED <<raised, runs, rng, entropy, backend, out, lastRun, data1, data2, hst2, pvars>>

\* line 29: hst1 += Text3D('Highlight a\nspecial bin', pos=(0.5,20), c='v')
HistoAddText ==
    /\ At(H, 29)
    /\ hst1' = IAdd(hst1, Text3D("v"))
    /\ Return(H, 29)
    /\ UNCHANGED <<raised, runs, rng, entropy, backend, out, lastRun, data1, data2, hst2, pvars>>

\* variant: histogram(data2, bins=30, alpha=0.5), without the format
HistoHst2NoFormat ==
    /\ At(H, 33)
    /\ hst2' = Histogram(data2, Bins, "default")
    /\ Return(H, 33)
    /\ UNCHANGED <<raised, runs, rng, entropy, backend, out, lastRun, data1, data2, hst1, pvars>>

\* line 33: hst2 = histogram(data2, format=hst1, alpha=0.5)
HistoHst2 ==
    /\ At(H, 33)
    /\ hst2' = HistogramLike(data2, hst1, "0.5")
    /\ Return(H, 33)
    /\ UNCHANGED <<raised, runs, rng, entropy, backend, out, lastRun, data1, data2, hst1, pvars>>

\* line 36: show(hst1, hst2, zoom=1.3)
HistoShow ==
    /\ At(H, 36)
    /\ out' = [out EXCEPT ![H] = Append(@, Scene(<<hst1, hst2>>, backend[H]))]
    /\ Return(H, 36)
    /\ UNCHANGED <<raised, runs, rng, entropy, backend, lastRun, hvars, pvars>>

---------------------------------------------------------------------------
(* pca.ipynb, cells 0 and 1 *)

\* lines 14-15: the imports
PcaImport == Import(P, 14)

\* line 17: plt = Plotter()
PcaPlotter ==
    /\ At(P, 17)
    /\ plt' = NewPlotter
    /\ pltTrace' = Append(pltTrace, "create")
    /\ Return(P, 17)
    /\ UNCHANGED <<raised, runs, rng, entropy, backend, out, lastRun, hvars, pts, elli, ipts, opts>>

\* line 19: pts = np.random.randn(500, 3)
PcaPts ==
    /\ At(P, 19)
    /\ pts' = Randn2D(rng[P], NPts)
    /\ rng' = [rng EXCEPT ![P] = AdvanceBy(@, NPts * Dim)]
    /\ Return(P, 19)
    /\ UNCHANGED <<raised, runs, entropy, backend, out, lastRun, hvars, plt, elli, ipts, opts, pltTrace>>

\* line 21: elli = pcaEllipsoid(pts, pvalue=0.5)
PcaEllipsoid ==
    /\ At(P, 21)
    /\ \E r2 \in 0..MaxR2 : elli' = Ellipsoid(pts, "0.5", r2)
    /\ Return(P, 21)
    /\ UNCHANGED <<raised, runs, rng, entropy, backend, out, lastRun, hvars, plt, pts, ipts, opts, pltTrace>>

\* line 22: plt += elli
PcaAddElli ==
    /\ At(P, 22)
    /\ plt' = PlotterAdd(plt, elli)
    /\ pltTrace' = Append(pltTrace, "add")
    /\ Return(P, 22)
    /\ UNCHANGED <<raised, runs, rng, entropy, backend, out, lastRun, hvars, pts, elli, ipts, opts>>

\* line 24: ipts = elli.insidePoints(pts)
PcaInside ==
    /\ At(P, 24)
    /\ ipts' = InsidePoints(elli, pts, FALSE)
    /\ Return(P, 24)
    /\ UNCHANGED <<raised, runs, rng, entropy, backend, out, lastRun, hvars, plt, pts, elli, opts, pltTrace>>

\* variant: the second query without invert=True
PcaOutsideNotInverted ==
    /\ At(P, 25)
    /\ opts' = InsidePoints(elli, pts, FALSE)
    /\ Return(P, 25)
    /\ UNCHANGED <<raised, runs, rng, entropy, backend, out, lastRun, hvars, plt, pts, elli, ipts, pltTrace>>

\* line 25: opts = elli.insidePoints(pts, invert=True)
PcaOutside ==
    /\ At(P, 25)
    /\ opts' = InsidePoints(elli, pts, TRUE)
    /\ Return(P, 25)
    /\ UNCHANGED <<raised, runs, rng, entropy, backend, out, lastRun, hvars, plt, pts, elli, ipts, pltTrace>>

\* line 26: plt += Points(ipts, c="g")
PcaAddInside ==
    /\ At(P, 26)
    /\ plt' = PlotterAdd(plt, Points(ipts, "g"))
    /\ pltTrace' = Append(pltTrace, "add")
    /\ Return(P, 26)
    /\ UNCHANGED <<raised, runs, rng, entropy, backend, out, lastRun, hvars, pts, elli, ipts, opts>>

\* variant: the inside points added a second time, in red
PcaAddOutsideInsidePts ==
    /\ At(P, 27)
    /\ plt' = PlotterAdd(plt, Points(ipts, "r"))
    /\ pltTrace' = Append(pltTrace, "add")
    /\ Return(P, 27)
    /\ UNCHANGED <<raised, runs, rng, entropy, backend, out, lastRun, hvars, pts, elli, ipts, opts>>

\* line 27: plt += Points(opts, c="r")
PcaAddOutside ==
    /\ At(P, 27)
    /\ plt' = PlotterAdd(plt, Points(opts, "r"))
    /\ pltTrace' = Append(pltTrace, "add")
    /\ Return(P, 27)
    /\ UNCHANGED <<raised, runs, rng, entropy, backend, out, lastRun, hvars, pts, elli, ipts, opts>>

\* line 29: printc("inside  points #", ipts.N(), c='g')
PcaPrintInside ==
    /\ At(P, 29)
    /\ out' = [out EXCEPT ![P] = Append(@, Report("inside  points #", N(ipts), "g"))]
    /\ Return(P, 29)
    /\ UNCHANGED <<raised, runs, rng, entropy, backend, lastRun, hvars, pvars>>

\* line 30: printc("outside points #", opts.N(), c='r')
PcaPrintOutside ==
    /\ At(P, 30)
    /\ out' = [out EXCEPT ![P] = Append(@, Report("outside points #", N(opts), "r"))]
    /\ Return(P, 30)
    /\ UNCHANGED <<raised, runs, rng, entropy, backend, lastRun, hvars, pvars>>

\* line 31: printc("a-sphericity:", elli.asphericity())
PcaPrintAsphericity ==
    /\ At(P, 31)
    /\ out' = [out EXCEPT ![P] = Append(@, Report("a-sphericity:", Asphericity(elli), "default"))]
    /\ Return(P, 31)
    /\ UNCHANGED <<raised, runs, rng, entropy, backend, lastRun, hvars, pvars>>

\* line 32: plt.show()
PcaShow ==
    /\ At(P, 32)
    /\ plt' = [plt EXCEPT !.shown = TRUE]
    /\ pltTrace' = Append(pltTrace, "show")
    /\ out' = [out EXCEPT ![P] = Append(@, Scene(plt.actors, backend[P]))]
    /\ Return(P, 32)
    /\ UNCHANGED <<raised, runs, rng, entropy, backend, lastRun, hvars, pts, elli, ipts, opts>>

\* line 41 (cell 1): plt.close()
PcaClose ==
    /\ At(P, 41)
    /\ plt' = [plt EXCEPT !.closed = TRUE]
    /\ pltTrace' = Append(pltTrace, "close")
    /\ Return(P, 41)
    /\ UNCHANGED <<raised, runs, rng, entropy, backend, out, lastRun, hvars, pts, elli, ipts, opts>>

---------------------------------------------------------------------------

HistoStep ==
    \/ HistoImport \/ HistoEmbedWindow \/ HistoSeed \/ HistoData1 \/ HistoData2
    \/ HistoHst1 \/ HistoUnpackC \/ HistoAddText \/ HistoHst2 \/ HistoShow

PcaStep ==
    \/ PcaImport \/ PcaPlotter \/ PcaPts \/ PcaEllipsoid \/ PcaAddElli
    \/ PcaInside \/ PcaOutside \/ PcaAddInside \/ PcaAddOutside
    \/ PcaPrintInside \/ PcaPrintOutside \/ PcaPrintAsphericity
    \/ PcaShow \/ PcaClose

Next ==
    \/ HistoStep
    \/ PcaStep
    \/ \E k \in Notebooks : Raise(k)
    \/ \E k \in Notebooks : Restart(k)

Spec == Init /\ [][Next]_vars

\* every statement that can run does run: a kernel executes its cell
LiveSpec == Spec /\ WF_vars(HistoStep) /\ WF_vars(PcaStep)

---------------------------------------------------------------------------
(* Properties *)

\* statement `line` of notebook k has run and returned in the current run
Past(k, line) == \E i \in 1..Len(log[k]) : log[k][i] = line

IsPrefix(a, b) == Len(a) <= Len(b) /\ a = SubSeq(b, 1, Len(a))

\* hst1 as histogram(data1, bins=30, ..., c='red') built it
Hst1Built == Histogram(data1, Bins, "red")

\* C2: once hst1.unpack(15).c('violet') has run, the 16th of the 30 bins of
\* hst1 is violet, and every other part hst1 was built with (the other 29
\* bins, error bars, markers, title, axes) still has the colour, and all
\* else, it was built with.
C2_OnlyBin16Recoloured ==
    Past(H, 28) =>
        LET built == Hst1Built.parts
        IN  /\ hst1.bins = 30
            /\ hst1.parts[16].type = "bin"
            /\ hst1.parts[16].c = "violet"
            /\ hst1.parts[16] = [built[16] EXCEPT !.c = "violet"]
            /\ \A i \in 1..Len(built) : i # 16 => hst1.parts[i] = built[i]

C2_Witness ==
    /\ Past(H, 29) /\ ~raised[H]
    /\ hst1.parts[16].c = "violet" /\ hst1.parts[17].c = "red"
    /\ hst1.parts[Len(hst1.parts)].type = "text3d"

\* C3: once hst2 = histogram(data2, format=hst1, alpha=0.5) has run, hst2
\* has the bin count and the axis limits of hst1; the call came after the
\* recolouring and after hst1 += Text3D(...), and hst1 is then still a
\* histogram, holding the parts it was built with (bin 16 recoloured)
\* followed by the text.
C3_SameLayoutAsHst1 ==
    Past(H, 33) =>
        /\ IsPrefix(<<9, 12, 14, 15, 16, 18, 28, 29, 33>>, log[H])
        /\ hst1.kind = "histogram"
        /\ hst1.parts = Append(UnpackC(Hst1Built, 15, "violet").parts, Text3D("v"))
        /\ hst2.kind = "histogram"
        /\ hst2.bins = hst1.bins
        /\ hst2.xlim = hst1.xlim
        /\ hst2.xlim = <<SeqMin(data1), SeqMax(data1)>>

C3_Witness ==
    /\ Past(H, 33)
    /\ hst2.xlim = hst1.xlim
    /\ hst2.xlim # <<SeqMin(data2), SeqMax(data2)>>
    /\ Len(hst1.parts) = Bins + 5

Lifecycle == <<"create", "add", "add", "add", "show", "close">>

\* C4: in every run of pca.ipynb the operations on plt are a prefix of
\* create, add, add, add, show, close: the plotter is created first, the
\* three additions come before show, close comes only after show and at most
\* once, and nothing follows close.
C4_PlotterLifecycle ==
    /\ IsPrefix(pltTrace, Lifecycle)
    /\ plt # NoObj =>
          /\ plt.closed => plt.shown
          /\ plt.shown => Len(plt.actors) = 3
          /\ plt.shown <=> Past(P, 32)
          /\ plt.closed <=> Past(P, 41)
    /\ plt = NoObj <=> pltTrace = <<>>

C4_Witness == pltTrace = Lifecycle /\ plt.closed /\ Done(P)

\* what pca.ipynb computes when it runs alone in a kernel seeded with e
PtsAlone(e) == Randn2D(e, NPts)

\* what histo_1D.ipynb feeds its two histogram calls when it runs alone
Data1Alone == Randn(SeedState(3), NData)

Data2Alone == RandCentred12(AdvanceBy(SeedState(3), NData), NData)

C6_InOrderOnceAndTerminates ==
    /\ [](\A k \in Notebooks :
            /\ pc[k] \in 1..(Len(Stmts(k)) + 1)
            /\ log[k] = SubSeq(Stmts(k), 1, pc[k] - 1)
            /\ Done(k) => log[k][Len(log[k])] = (IF k = H THEN 36 ELSE 41))
    /\ \A k \in Notebooks : []<>(Done(k) \/ raised[k])

C6_Witness ==
    /\ Done(H) /\ log[H] = <<9, 12, 14, 15, 16, 18, 28, 29, 33, 36>>
    /\ Done(P) /\ log[P] = <<14, 17, 19, 21, 22, 24, 25, 26, 27, 29, 30, 31, 32, 41>>

HasScene(k) == \E i \in 1..Len(out[k]) : out[k][i].kind = "scene"

\* C7: once a statement of a notebook has raised, the run is over: no
\* statement of the notebook executes after it, the raising statement is
\* neither retried nor replaced, and the namespace and the outputs stay as
\* they were; if it raised before show returned, nothing is ever shown.
C7_ErrorEndsTheRun ==
    /\ [](\A k \in Notebooks :
            raised[k] => /\ pc[k] <= Len(Stmts(k))
                         /\ ~Past(k, Stmts(k)[pc[k]])
                         /\ ~Past(k, IF k = H THEN 36 ELSE 32) => ~HasScene(k))
    /\ [][\A k \in Notebooks :
            (raised[k] /\ runs'[k] = runs[k]) =>
                /\ raised'[k] /\ pc'[k] = pc[k] /\ log'[k] = log[k]
                /\ out'[k] = out[k] /\ rng'[k] = rng[k] /\ backend'[k] = backend[k]
                /\ k = H => UNCHANGED hvars
                /\ k = P => UNCHANGED pvars]_vars

\* the fit raised in pca.ipynb and the first histogram call in histo_1D.ipynb
C7_Witness ==
    /\ raised[P] /\ Stmts(P)[pc[P]] = 21 /\ plt # NoObj /\ ~HasScene(P)
    /\ raised[H] /\ Stmts(H)[pc[H]] = 18 /\ data2 # <<>> /\ hst1 = NoObj

\* C8: once both containment queries have run, ipts and opts are the inside
\* and the outside points of the same cloud pts, as drawn, for the same
\* ellipsoid elli, the one added to the plotter; every point of pts is in
\* exactly one of the two, and ipts.N() + opts.N() is the size of the cloud.
C8_InsideOutsidePartition ==
    Past(P, 25) =>
        /\ Len(pts) = NPts
        /\ pts = PtsAlone(entropy[P])
        /\ plt.actors[1] = elli
        /\ ipts = InsidePoints(elli, pts, FALSE)
        /\ opts = InsidePoints(elli, pts, TRUE)
        /\ \A i \in 1..Len(pts) : (pts[i] \in Range(ipts)) # (pts[i] \in Range(opts))
        /\ N(ipts) + N(opts) = NPts

C8_Witness == Past(P, 25) /\ N(ipts) > 0 /\ N(opts) > 0 /\ N(ipts) + N(opts) = NPts

\* C9: when plt.show() is reached, and after it, the plotter holds exactly
\* the ellipsoid, the inside points in green and the outside points in red,
\* in this order; no point is in both the green and the red set; the three
\* reports (inside count, outside count, asphericity) precede the scene.
C9_ThreeActorsAtShow ==
    Past(P, 31) =>
        /\ plt.actors = <<elli, Points(ipts, "g"), Points(opts, "r")>>
        /\ Range(ipts) \cap Range(opts) = {}
        /\ SubSeq(out[P], 1, 3) =
              << Report("inside  points #", Len(ipts), "g"),
                 Report("outside points #", Len(opts), "r"),
                 Report("a-sphericity:", Asphericity(elli), "default") >>
        /\ Past(P, 32) => out[P] = Append(SubSeq(out[P], 1, 3), Scene(plt.actors, backend[P]))
        /\ ~Past(P, 32) => Len(out[P]) = 3

C9_Witness ==
    /\ Past(P, 32) /\ Len(plt.actors) = 3 /\ Len(out[P]) = 4
    /\ plt.actors[2].pts # <<>> /\ plt.actors[3].pts # <<>>

\* C10: in every run of histo_1D.ipynb the two histogram calls get the same
\* data1 and data2, NData samples each, those of seed 3, whatever entropy the
\* fresh kernel started with, so a second run repeats the first; pca.ipynb
\* sets no seed and its pts are those of the kernel's entropy, which may
\* differ from run to run.
C10_HistoDataRepeatable ==
    /\ Past(H, 15) => data1 = Data1Alone /\ Len(data1) = NData
    /\ Past(H, 16) => data2 = Data2Alone /\ Len(data2) = NData
    /\ Past(H, 18) => hst1.xlim = <<SeqMin(Data1Alone), SeqMax(Data1Alone)>>
    /\ (Past(H, 16) /\ lastRun[H] # <<>>) => lastRun[H] = <<data1, data2>>
    /\ Past(P, 19) => pts = PtsAlone(entropy[P])

\* second runs of both notebooks: histo_1D.ipynb repeats its data although
\* its kernel's entropy is not the seed's state, pca.ipynb draws another cloud
C10_Witness ==
    /\ runs[H] = 2 /\ Past(H, 16) /\ lastRun[H] = <<data1, data2>>
    /\ entropy[H] # SeedState(3)
    /\ runs[P] = 2 /\ Past(P, 19) /\ lastRun[P] # <<>> /\ lastRun[P] # pts

==========================================================================
